---------------------------- MODULE Spec2Model ----------------------------
(***************************************************************************)
(* A model of llvm::scc_iterator (include/llvm/ADT/SCCIterator.h): the     *)
(* iterative Tarjan enumeration of the strongly connected components of a  *)
(* directed graph.  The graph is an input: an entry node and, per node, an *)
(* ordered list of children (GraphTraits child_begin .. child_end).        *)
(* Assertions are modelled as compiled in: a failed assert aborts.         *)
(***************************************************************************)
EXTENDS Integers, Sequences, FiniteSets, TLC

\* ------------------------------------------------------------------ bounds
NumNodes == 3
MaxEdges == 3
ExtraIds == 1
\* operator++ calls made beyond the one that exhausts the iterator
ExtraAdvances == 1
\* ReplaceNode calls made on one iterator
MaxReplaces == 2

\* The number of values of `unsigned`.  The program's is 2^32, which TLC's
\* integers cannot hold, so the model's unsigned has 16 bits.  Visit numbers
\* never exceed the number of visits made, far below either.
UnsignedRange == 65536

\* ------------------------------------------------------- program constants
\* ~0U, the mark of a node that was emitted in an SCC
Finalized == UnsignedRange - 1

\* Node identities of the graph, and all identities (the graph's and the
\* ones a node may be replaced by).
Nodes == 1..NumNodes
Ids == 1..(NumNodes + ExtraIds)
\* What an uninitialised unsigned may hold: any value; two stand for all.
Indeterminate == {0, Finalized}

VARIABLES
    entry,      \* GT::getEntryNode(G)
    children,   \* children[n]: the sequence child_begin(n) .. child_end(n)
    it,         \* the scc_iterator object (a record of its data members)
    pc,         \* "init" | "run" (inside GetNextSCC's loop) | "idle" | "aborted"
    ctor,       \* which constructor made `it`: "none" | "begin" | "end"
    advances,   \* number of operator++ calls made
    replaces,   \* number of ReplaceNode calls made
    emitted,    \* the SCCs operator* offered after begin and after each ++
    ret,        \* outcome of the last call of isAtEnd, *, hasLoop, ReplaceNode
    visited,    \* the calls of DFSVisitOne so far: <<node, number given>>
    examined,   \* the children read so far: <<node, position in its list>>
    freshOnly   \* every ReplaceNode so far gave the record of a tracked Old
                \* to a New that was no key and is no node of the graph

vars == <<entry, children, it, pc, ctor, advances, replaces, emitted, ret,
          visited, examined, freshOnly>>

\* ------------------------------------------------------------ small helpers
Range(s) == {s[i] : i \in DOMAIN s}
Back(s) == s[Len(s)]
PopBack(s) == SubSeq(s, 1, Len(s) - 1)
SetBack(s, v) == [s EXCEPT ![Len(s)] = v]

RECURSIVE SumOver(_, _)
SumOver(f, S) ==
    IF S = {} THEN 0
    ELSE LET x == CHOOSE y \in S : TRUE IN f[x] + SumOver(f, S \ {x})

\* DenseMap<NodeType *, unsigned>: a function on the set of its keys
EmptyMap == [k \in {} |-> 0]
MapCount(m, k) == k \in DOMAIN m
MapSet(m, k, v) == [x \in (DOMAIN m) \cup {k} |-> IF x = k THEN v ELSE m[x]]
MapErase(m, k) == [x \in (DOMAIN m) \ {k} |-> m[x]]
\* operator[] as an rvalue: a missing key is inserted with value 0
MapSubscript(m, k) == IF k \in DOMAIN m THEN m ELSE MapSet(m, k, 0)

\* ---------------------------------------------------------------- the graph
\* Every graph on Nodes with at most MaxEdges edges; a node's children are
\* an ordered list and may repeat (parallel edges) or name the node itself.
DegreeVectors(k) == {d \in [Nodes -> 0..k] : SumOver(d, Nodes) = k}
Offset(d, n) == SumOver(d, {m \in Nodes : m < n})
ChildrenOf(d, tgt) ==
    [n \in Ids |-> IF n \in Nodes
                   THEN SubSeq(tgt, Offset(d, n) + 1, Offset(d, n) + d[n])
                   ELSE <<>>]

ChildBegin(N) == 1
ChildEnd(N) == Len(children[N]) + 1
ChildAt(N, i) == children[N][i]

\* ------------------------------------------------------------- the iterator
\* scc_iterator(): every container empty; visitNum is not initialised
NewIterator(v) ==
    [visitNum |-> v, nodeVisitNumbers |-> EmptyMap, SCCNodeStack |-> <<>>,
     CurrentSCC |-> <<>>, VisitStack |-> <<>>, MinVisitNumStack |-> <<>>]

\* Mutant of DFSVisitOne: the node goes to the bottom of SCCNodeStack.
DFSVisitOnePushFront(s, N) ==
    LET vn == s.visitNum + 1 IN
    [s EXCEPT !.visitNum = vn,
              !.nodeVisitNumbers = MapSet(@, N, vn),
              !.SCCNodeStack = <<N>> \o @,
              !.MinVisitNumStack = Append(@, vn),
              !.VisitStack = Append(@, <<N, ChildBegin(N)>>)]

\* Mutant of DFSVisitOne: visitNum is incremented after it is stored.
DFSVisitOnePostIncrement(s, N) ==
    LET vn == s.visitNum IN
    [s EXCEPT !.visitNum = vn + 1,
              !.nodeVisitNumbers = MapSet(@, N, vn),
              !.SCCNodeStack = Append(@, N),
              !.MinVisitNumStack = Append(@, vn),
              !.VisitStack = Append(@, <<N, ChildBegin(N)>>)]

\* A single "visit" within the non-recursive DFS traversal.
DFSVisitOne(s, N) ==
    LET vn == (s.visitNum + 1) % UnsignedRange IN
    [s EXCEPT !.visitNum = vn,
              !.nodeVisitNumbers = MapSet(@, N, vn),
              !.SCCNodeStack = Append(@, N),
              !.MinVisitNumStack = Append(@, vn),
              !.VisitStack = Append(@, <<N, ChildBegin(N)>>)]

\* The loop condition of DFSVisitChildren: TOS has at least one more child
HasMoreChildren(s) ==
    Back(s.VisitStack)[2] # ChildEnd(Back(s.VisitStack)[1])

\* Mutant of DFSVisitChildrenStep: the min is lowered to the child's number
\* without the comparison, so a finalized child raises it to ~0U.
DFSVisitChildrenStepUnguardedMin(s) ==
    LET top == Back(s.VisitStack)
        childN == ChildAt(top[1], top[2])
        s1 == [s EXCEPT !.VisitStack = SetBack(@, <<top[1], top[2] + 1>>)]
    IN  IF ~MapCount(s1.nodeVisitNumbers, childN)
        THEN DFSVisitOne(s1, childN)
        ELSE [s1 EXCEPT !.MinVisitNumStack =
                            SetBack(@, s1.nodeVisitNumbers[childN])]

\* Mutant of DFSVisitChildrenStep: the cursor is not advanced when the child
\* is visited, so the child is read again once its frame is done.
DFSVisitChildrenStepRereads(s) ==
    LET top == Back(s.VisitStack)
        childN == ChildAt(top[1], top[2])
        s1 == [s EXCEPT !.VisitStack = SetBack(@, <<top[1], top[2] + 1>>)]
    IN  IF ~MapCount(s1.nodeVisitNumbers, childN)
        THEN DFSVisitOne(s, childN)
        ELSE LET childNum == s1.nodeVisitNumbers[childN] IN
             IF Back(s1.MinVisitNumStack) > childNum
             THEN [s1 EXCEPT !.MinVisitNumStack = SetBack(@, childNum)]
             ELSE s1

\* Mutant of DFSVisitChildrenStep: the comparison is the wrong way round, so
\* the min is raised to the number of a later or finalized child.
DFSVisitChildrenStepRaisesMin(s) ==
    LET top == Back(s.VisitStack)
        childN == ChildAt(top[1], top[2])
        s1 == [s EXCEPT !.VisitStack = SetBack(@, <<top[1], top[2] + 1>>)]
    IN  IF ~MapCount(s1.nodeVisitNumbers, childN)
        THEN DFSVisitOne(s1, childN)
        ELSE LET childNum == s1.nodeVisitNumbers[childN] IN
             IF Back(s1.MinVisitNumStack) < childNum
             THEN [s1 EXCEPT !.MinVisitNumStack = SetBack(@, childNum)]
             ELSE s1

\* One iteration of the while loop of DFSVisitChildren
DFSVisitChildrenStep(s) ==
    LET top == Back(s.VisitStack)
        childN == ChildAt(top[1], top[2])
        s1 == [s EXCEPT !.VisitStack = SetBack(@, <<top[1], top[2] + 1>>)]
    IN  IF ~MapCount(s1.nodeVisitNumbers, childN)
        THEN DFSVisitOne(s1, childN)
        ELSE LET childNum == s1.nodeVisitNumbers[childN] IN
             IF Back(s1.MinVisitNumStack) > childNum
             THEN [s1 EXCEPT !.MinVisitNumStack = SetBack(@, childNum)]
             ELSE s1

\* Mutant of PopSCC: emitted nodes are marked with 0 instead of ~0U.
RECURSIVE PopSCCMarkZero(_, _)
PopSCCMarkZero(s, visitingN) ==
    LET n == Back(s.SCCNodeStack)
        s1 == [s EXCEPT !.CurrentSCC = Append(@, n),
                        !.SCCNodeStack = PopBack(@),
                        !.nodeVisitNumbers = MapSet(@, n, 0)]
    IN  IF n # visitingN THEN PopSCCMarkZero(s1, visitingN) ELSE s1

\* Mutant of PopSCC: a while loop instead of the do-while; the root of the
\* SCC stays on SCCNodeStack.
RECURSIVE PopSCCWhile(_, _)
PopSCCWhile(s, visitingN) ==
    LET n == Back(s.SCCNodeStack)
        s1 == [s EXCEPT !.CurrentSCC = Append(@, n),
                        !.SCCNodeStack = PopBack(@),
                        !.nodeVisitNumbers = MapSet(@, n, Finalized)]
    IN  IF n # visitingN THEN PopSCCWhile(s1, visitingN) ELSE s

\* The do-while of GetNextSCC: move the nodes of the SCC to CurrentSCC
RECURSIVE PopSCC(_, _)
PopSCC(s, visitingN) ==
    LET n == Back(s.SCCNodeStack)
        s1 == [s EXCEPT !.CurrentSCC = Append(@, n),
                        !.SCCNodeStack = PopBack(@),
                        !.nodeVisitNumbers = MapSet(@, n, Finalized)]
    IN  IF n # visitingN THEN PopSCC(s1, visitingN) ELSE s1

\* Mutant of PopFrame: the popped frame's min is not passed to its parent.
PopFrameNoPropagate(s) ==
    LET visitingN == Back(s.VisitStack)[1]
        minVisitNum == Back(s.MinVisitNumStack)
        s1 == [s EXCEPT !.VisitStack = PopBack(@),
                        !.MinVisitNumStack = PopBack(@),
                        !.nodeVisitNumbers = MapSubscript(@, visitingN)]
    IN  IF minVisitNum # s1.nodeVisitNumbers[visitingN]
        THEN [it |-> s1, returned |-> FALSE]
        ELSE [it |-> PopSCC(s1, visitingN), returned |-> TRUE]

\* Mutant of PopFrame: no return once an SCC is complete; the loop goes on
\* with the frames left.
PopFrameNoReturn(s) ==
    LET visitingN == Back(s.VisitStack)[1]
        minVisitNum == Back(s.MinVisitNumStack)
        ms == PopBack(s.MinVisitNumStack)
        s1 == [s EXCEPT !.VisitStack = PopBack(@),
                        !.MinVisitNumStack =
                            IF ms # <<>> /\ Back(ms) > minVisitNum
                            THEN SetBack(ms, minVisitNum) ELSE ms,
                        !.nodeVisitNumbers = MapSubscript(@, visitingN)]
    IN  IF minVisitNum # s1.nodeVisitNumbers[visitingN]
        THEN [it |-> s1, returned |-> FALSE]
        ELSE [it |-> PopSCC(s1, visitingN), returned |-> FALSE]

\* Mutant of PopFrame: MinVisitNumStack is not popped with VisitStack.
PopFrameKeepMin(s) ==
    LET visitingN == Back(s.VisitStack)[1]
        minVisitNum == Back(s.MinVisitNumStack)
        s1 == [s EXCEPT !.VisitStack = PopBack(@),
                        !.nodeVisitNumbers = MapSubscript(@, visitingN)]
    IN  IF minVisitNum # s1.nodeVisitNumbers[visitingN]
        THEN [it |-> s1, returned |-> FALSE]
        ELSE [it |-> PopSCC(s1, visitingN), returned |-> TRUE]

\* Mutant of PopFrame: the popped frame's min is stored in its parent
\* without the comparison.
PopFramePropagateAlways(s) ==
    LET visitingN == Back(s.VisitStack)[1]
        minVisitNum == Back(s.MinVisitNumStack)
        ms == PopBack(s.MinVisitNumStack)
        s1 == [s EXCEPT !.VisitStack = PopBack(@),
                        !.MinVisitNumStack =
                            IF ms # <<>>
                            THEN SetBack(ms, minVisitNum) ELSE ms,
                        !.nodeVisitNumbers = MapSubscript(@, visitingN)]
    IN  IF minVisitNum # s1.nodeVisitNumbers[visitingN]
        THEN [it |-> s1, returned |-> FALSE]
        ELSE [it |-> PopSCC(s1, visitingN), returned |-> TRUE]

\* One iteration of the while loop of GetNextSCC once DFSVisitChildren is
\* done: pop the frame, pass its min to the parent, and emit the SCC when
\* the frame is its root.  returned: the function returns (line 135).
PopFrame(s) ==
    LET visitingN == Back(s.VisitStack)[1]
        minVisitNum == Back(s.MinVisitNumStack)
        ms == PopBack(s.MinVisitNumStack)
        s1 == [s EXCEPT !.VisitStack = PopBack(@),
                        !.MinVisitNumStack =
                            IF ms # <<>> /\ Back(ms) > minVisitNum
                            THEN SetBack(ms, minVisitNum) ELSE ms,
                        !.nodeVisitNumbers = MapSubscript(@, visitingN)]
    IN  IF minVisitNum # s1.nodeVisitNumbers[visitingN]
        THEN [it |-> s1, returned |-> FALSE]
        ELSE [it |-> PopSCC(s1, visitingN), returned |-> TRUE]

\* The entry of GetNextSCC: the assertion, then CurrentSCC.clear()
GetNextSCCAssert(s) == Len(s.VisitStack) = Len(s.MinVisitNumStack)
GetNextSCCEnter(s) == [s EXCEPT !.CurrentSCC = <<>>]

\* isAtEnd
IsAtEndAssert(s) == s.CurrentSCC # <<>> \/ s.VisitStack = <<>>
IsAtEnd(s) == s.CurrentSCC = <<>>

\* Mutant of Equals: only the DFS stacks are compared.
EqualsStackOnly(x, y) == x.VisitStack = y.VisitStack

\* operator==
Equals(x, y) == x.VisitStack = y.VisitStack /\ x.CurrentSCC = y.CurrentSCC

\* Mutant of DerefAssert: the assertion is missing.
DerefAssertMissing(s) == TRUE

\* operator*
DerefAssert(s) == s.CurrentSCC # <<>>
Deref(s) == s.CurrentSCC

\* hasLoop: its assertion
HasLoopAssert(s) == s.CurrentSCC # <<>>

\* hasLoop: the scan of the children of the only node of the SCC
RECURSIVE ScanForSelf(_, _)
ScanForSelf(N, CI) ==
    IF CI = ChildEnd(N) THEN FALSE
    ELSE IF ChildAt(N, CI) = N THEN TRUE
    ELSE ScanForSelf(N, CI + 1)

\* Mutant of HasLoop: only the size of the SCC is looked at.
HasLoopSizeOnly(s) == Len(s.CurrentSCC) > 1

HasLoop(s) ==
    IF Len(s.CurrentSCC) > 1 THEN TRUE
    ELSE ScanForSelf(Head(s.CurrentSCC), ChildBegin(Head(s.CurrentSCC)))

\* Mutant of ReplaceNodeAssert: the assertion is missing.
ReplaceNodeAssertMissing(s, Old) == TRUE

\* ReplaceNode: its assertion
ReplaceNodeAssert(s, Old) == MapCount(s.nodeVisitNumbers, Old)

\* ReplaceNode, lines 204-205: nodeVisitNumbers[New] = nodeVisitNumbers[Old]
\* then erase(Old).  Both operands are references into the map's buckets.
\* When New is not a key, operator[] inserts it, and an insertion that makes
\* the DenseMap reallocate its buckets leaves the reference to Old's value
\* dangling: the value then stored for New is indeterminate.  Whether the
\* insertion reallocates is decided by DenseMap from its load, which is not
\* part of the iterator's state, so both outcomes are possible here.
ReplaceNodeValues(s, Old, New) ==
    LET m == MapSubscript(s.nodeVisitNumbers, Old) IN
    IF MapCount(m, New) THEN {m[Old]} ELSE {m[Old]} \cup Indeterminate

\* Mutant of ReplaceNodeStore: Old is also renamed in CurrentSCC and on
\* SCCNodeStack.
ReplaceNodeStoreRenames(s, Old, New, v) ==
    LET Rename(q) == [i \in 1..Len(q) |-> IF q[i] = Old THEN New ELSE q[i]]
    IN  [s EXCEPT !.nodeVisitNumbers = MapErase(MapSet(@, New, v), Old),
                  !.CurrentSCC = Rename(@),
                  !.SCCNodeStack = Rename(@)]

ReplaceNodeStore(s, Old, New, v) ==
    [s EXCEPT !.nodeVisitNumbers = MapErase(MapSet(@, New, v), Old)]

\* ret: op, the observer called; ok, FALSE when its assertion failed; val,
\* the value it returned
NoRet == [op |-> "none", ok |-> TRUE, val |-> FALSE]
Returned(o, v) == [op |-> o, ok |-> TRUE, val |-> v]
AssertionFailed(o) == [op |-> o, ok |-> FALSE, val |-> FALSE]
\* the same, keeping the arguments of the call
AssertionFailedWith(o, args) == [op |-> o, ok |-> FALSE, val |-> args]

\* ------------------------------------------------------------------- Init
\* Every graph on Nodes is drawn, and the code never looks at the name of a
\* node, so calling the entry node 1 leaves out no case.
Init ==
    /\ entry = CHOOSE n \in Nodes : \A m \in Nodes : n <= m
    /\ \E k \in 0..MaxEdges : \E d \in DegreeVectors(k) :
         \E tgt \in [1..k -> Nodes] : children = ChildrenOf(d, tgt)
    /\ it = NewIterator(0)
    /\ pc = "init"
    /\ ctor = "none"
    /\ advances = 0
    /\ replaces = 0
    /\ emitted = <<>>
    /\ ret = NoRet
    /\ visited = <<>>
    /\ examined = <<>>
    /\ freshOnly = TRUE

GraphUnchanged == UNCHANGED <<entry, children>>
LogUnchanged == UNCHANGED <<visited, examined>>

\* Mutant of Begin: the constructor visits the entry node and returns
\* without computing the first SCC.
BeginWithoutGetNextSCC ==
    /\ pc = "init"
    /\ it' = DFSVisitOne(NewIterator(0), entry)
    /\ pc' = "idle"
    /\ ctor' = "begin"
    /\ ret' = NoRet
    /\ visited' = <<<<entry, it'.nodeVisitNumbers[entry]>>>>
    /\ UNCHANGED <<advances, replaces, freshOnly, emitted, examined>>
    /\ GraphUnchanged

\* ---------------------------------------------------------------- actions
\* scc_iterator::begin: scc_iterator(entryN) up to the loop of GetNextSCC
Begin ==
    /\ pc = "init"
    /\ LET s == DFSVisitOne(NewIterator(0), entry) IN
         IF GetNextSCCAssert(s)
         THEN it' = GetNextSCCEnter(s) /\ pc' = "run"
         ELSE it' = s /\ pc' = "aborted"
    /\ ctor' = "begin"
    /\ ret' = NoRet
    /\ visited' = <<<<entry, it'.nodeVisitNumbers[entry]>>>>
    /\ UNCHANGED <<advances, replaces, freshOnly, emitted, examined>>
    /\ GraphUnchanged

\* scc_iterator::end: the default constructor
End ==
    /\ pc = "init"
    /\ \E v \in Indeterminate : it' = NewIterator(v)
    /\ pc' = "idle"
    /\ ctor' = "end"
    /\ ret' = NoRet
    /\ UNCHANGED <<advances, replaces, freshOnly, emitted>>
    /\ GraphUnchanged /\ LogUnchanged

\* operator++: the entry of GetNextSCC
Increment ==
    /\ pc = "idle"
    /\ advances < Len(emitted) + ExtraAdvances
    /\ advances' = advances + 1
    /\ IF GetNextSCCAssert(it)
       THEN it' = GetNextSCCEnter(it) /\ pc' = "run"
       ELSE it' = it /\ pc' = "aborted"
    /\ ret' = NoRet
    /\ UNCHANGED <<ctor, replaces, freshOnly, emitted>>
    /\ GraphUnchanged /\ LogUnchanged

\* GetNextSCC, an iteration of DFSVisitChildren's loop
VisitChild ==
    /\ pc = "run"
    /\ it.VisitStack # <<>>
    /\ HasMoreChildren(it)
    /\ it' = DFSVisitChildrenStep(it)
    /\ examined' = Append(examined, Back(it.VisitStack))
    /\ visited' = IF Len(it'.VisitStack) > Len(it.VisitStack)
                  THEN LET N == Back(it'.VisitStack)[1] IN
                       Append(visited, <<N, it'.nodeVisitNumbers[N]>>)
                  ELSE visited
    /\ UNCHANGED <<pc, ctor, advances, replaces, freshOnly, emitted, ret>>
    /\ GraphUnchanged

\* GetNextSCC, lines 108-135: the frame on top has no more children
FinishFrame ==
    /\ pc = "run"
    /\ it.VisitStack # <<>>
    /\ ~HasMoreChildren(it)
    /\ LET r == PopFrame(it) IN
         /\ it' = r.it
         /\ pc' = IF r.returned THEN "idle" ELSE "run"
         /\ emitted' = IF r.returned THEN Append(emitted, r.it.CurrentSCC)
                       ELSE emitted
    /\ UNCHANGED <<ctor, advances, replaces, freshOnly, ret>>
    /\ GraphUnchanged /\ LogUnchanged

\* GetNextSCC, the loop ends: the DFS stack is empty
LoopExit ==
    /\ pc = "run"
    /\ it.VisitStack = <<>>
    /\ pc' = "idle"
    /\ UNCHANGED <<it, ctor, advances, replaces, freshOnly, emitted, ret>>
    /\ GraphUnchanged /\ LogUnchanged

\* a call of isAtEnd()
CallIsAtEnd ==
    /\ pc = "idle"
    /\ IF IsAtEndAssert(it)
       THEN ret' = Returned("isAtEnd", IsAtEnd(it)) /\ pc' = pc
       ELSE ret' = AssertionFailed("isAtEnd") /\ pc' = "aborted"
    /\ UNCHANGED <<it, ctor, advances, replaces, freshOnly, emitted>>
    /\ GraphUnchanged /\ LogUnchanged

\* a call of operator*()
CallDeref ==
    /\ pc = "idle"
    /\ IF DerefAssert(it)
       THEN ret' = Returned("deref", Deref(it)) /\ pc' = pc
       ELSE ret' = AssertionFailed("deref") /\ pc' = "aborted"
    /\ UNCHANGED <<it, ctor, advances, replaces, freshOnly, emitted>>
    /\ GraphUnchanged /\ LogUnchanged

\* a call of hasLoop()
CallHasLoop ==
    /\ pc = "idle"
    /\ IF HasLoopAssert(it)
       THEN ret' = Returned("hasLoop", HasLoop(it)) /\ pc' = pc
       ELSE ret' = AssertionFailed("hasLoop") /\ pc' = "aborted"
    /\ UNCHANGED <<it, ctor, advances, replaces, freshOnly, emitted>>
    /\ GraphUnchanged /\ LogUnchanged

\* New names no node of the graph and is no key of the map
FreshIdentity(s, New) ==
    New \notin Nodes /\ ~MapCount(s.nodeVisitNumbers, New)

\* a call of ReplaceNode(Old, New), made between two operations.  The
\* function touches the iterator only; the graph is the caller's.
ReplaceNode ==
    /\ pc = "idle"
    /\ replaces < MaxReplaces
    /\ replaces' = replaces + 1
    /\ \E Old \in Ids : \E New \in Ids :
         IF ReplaceNodeAssert(it, Old)
         THEN /\ \E v \in ReplaceNodeValues(it, Old, New) :
                   /\ it' = ReplaceNodeStore(it, Old, New, v)
                   /\ freshOnly' = (/\ freshOnly
                                    /\ FreshIdentity(it, New)
                                    /\ v = it.nodeVisitNumbers[Old])
              /\ ret' = Returned("ReplaceNode", <<Old, New>>)
              /\ pc' = pc
         ELSE /\ it' = it
              /\ freshOnly' = FALSE
              /\ ret' = AssertionFailedWith("ReplaceNode", <<Old, New>>)
              /\ pc' = "aborted"
    /\ UNCHANGED <<ctor, advances, emitted>>
    /\ GraphUnchanged /\ LogUnchanged

Next ==
    \/ Begin
    \/ End
    \/ Increment
    \/ VisitChild
    \/ FinishFrame
    \/ LoopExit
    \/ CallIsAtEnd
    \/ CallDeref
    \/ CallHasLoop

\* The steps inside a call of GetNextSCC
Running == VisitChild \/ FinishFrame \/ LoopExit

Spec == Init /\ [][Next]_vars

\* A call that was entered keeps executing: the program is one thread that
\* runs the loop of GetNextSCC until it returns.
FairSpec == Spec /\ WF_vars(Running)


\* The iterator with ReplaceNode calls between its operations
NextR == Next \/ ReplaceNode

SpecR == Init /\ [][NextR]_vars

\* ------------------------------------------------- reference definitions
\* Reachability and strongly connected components by their definitions,
\* against which the iterator's output is compared.
Succ(n) == Range(children[n])

RECURSIVE ReachFrom(_)
ReachFrom(S) ==
    LET T == S \cup UNION {Succ(n) : n \in S} IN
    IF T = S THEN S ELSE ReachFrom(T)

Reachable(n) == ReachFrom({n})
MutuallyReachable(u, v) == v \in Reachable(u) /\ u \in Reachable(v)
SCCOf(u) == {v \in Nodes : MutuallyReachable(u, v)}
IsSCC(S) ==
    /\ S # {}
    /\ \A u, v \in S : MutuallyReachable(u, v)
    /\ \A u \in S : \A w \in Nodes \ S : ~MutuallyReachable(u, w)
ReachableSCCs == {SCCOf(n) : n \in Reachable(entry)}

\* The positions of `emitted` at which node n was emitted
PositionsOf(n) == {i \in DOMAIN emitted : n \in Range(emitted[i])}
EmittedNodes == UNION {Range(emitted[i]) : i \in DOMAIN emitted}

\* An enumeration started by begin() has been run to exhaustion
Exhausted == ctor = "begin" /\ pc = "idle" /\ IsAtEnd(it)

\* ------------------------------------------------------------------ claims

\* C1: after a full enumeration, for every edge (u, v) between reachable
\* nodes of different SCCs, both SCCs were emitted and the one containing u
\* was emitted at a strictly later position than the one containing v.
C1_ReverseTopologicalOrder ==
    Exhausted =>
        \A u \in Reachable(entry) : \A v \in Succ(u) :
            ~MutuallyReachable(u, v) =>
                /\ PositionsOf(u) # {}
                /\ PositionsOf(v) # {}
                /\ \A i \in PositionsOf(u) : \A j \in PositionsOf(v) : j < i

\* C1 witness: a full enumeration of a graph with an edge between two SCCs
C1_Witness ==
    /\ Exhausted
    /\ \E u \in Reachable(entry) : \E v \in Succ(u) : ~MutuallyReachable(u, v)
    /\ Len(emitted) = 3

\* C2: the emitted SCCs never contain a node unreachable from the entry,
\* never repeat a node (within one SCC or across two), and after a full
\* enumeration their union is the set of nodes reachable from the entry.
C2_PartitionOfReachable ==
    /\ EmittedNodes \subseteq Reachable(entry)
    /\ \A i \in DOMAIN emitted :
           Cardinality(Range(emitted[i])) = Len(emitted[i])
    /\ \A i, j \in DOMAIN emitted :
           i # j => Range(emitted[i]) \cap Range(emitted[j]) = {}
    /\ Exhausted => EmittedNodes = Reachable(entry)

\* C2 witness: a full enumeration that left a node of the graph out
\* because it is unreachable, and emitted more than one SCC
C2_Witness ==
    /\ Exhausted
    /\ Reachable(entry) # Nodes
    /\ Len(emitted) = 2

\* C3: what operator* returns, and the current SCC whenever the iterator
\* rests on one, is a strongly connected component of the graph: its nodes
\* reach each other, no node outside is mutually reachable with one inside,
\* and it equals the component the reference definition gives.
C3_CurrentIsSCC ==
    /\ (pc = "idle" /\ it.CurrentSCC # <<>>) =>
           /\ IsSCC(Range(it.CurrentSCC))
           /\ Range(it.CurrentSCC) = SCCOf(Head(it.CurrentSCC))
    /\ (ret.op = "deref" /\ ret.ok) =>
           /\ IsSCC(Range(ret.val))
           /\ Range(ret.val) = SCCOf(Head(ret.val))

\* C3 witness: operator* returned an SCC of several nodes after an
\* operator++, in a graph that has another SCC
C3_Witness ==
    /\ ret.op = "deref" /\ ret.ok
    /\ Len(ret.val) = 2
    /\ advances = 1
    /\ Len(emitted) = 2

\* C4: hasLoop() on a current SCC returns true exactly when the SCC has more
\* than one node, or its only node has an edge to itself; and the call leaves
\* the iterator as it was.
C4_HasLoop ==
    /\ [](ret.op = "hasLoop" /\ it.CurrentSCC # <<>> =>
            /\ ret.ok
            /\ ret.val = (\/ Cardinality(Range(it.CurrentSCC)) > 1
                          \/ /\ Cardinality(Range(it.CurrentSCC)) = 1
                             /\ \A n \in Range(it.CurrentSCC) : n \in Succ(n)))
    /\ [][ret'.op = "hasLoop" => it' = it]_vars

\* C4 witness: hasLoop() returned true for an SCC of one node
C4_Witness ==
    /\ ret.op = "hasLoop" /\ ret.ok /\ ret.val = TRUE
    /\ Len(it.CurrentSCC) = 1

\* C5: when begin() has returned and operator++ was never called, the
\* iterator is not at the end and its current SCC is the first SCC of the
\* enumeration, a complete SCC; begin() does not abort.
C5_BeginHoldsFirstSCC ==
    (ctor = "begin" /\ advances = 0) =>
        /\ pc \in {"run", "idle"}
        /\ pc = "idle" =>
             /\ IsAtEndAssert(it)
             /\ ~IsAtEnd(it)
             /\ Len(emitted) = 1
             /\ it.CurrentSCC = emitted[1]
             /\ IsSCC(Range(it.CurrentSCC))

\* C5 witness: begin() has returned on a graph whose first SCC is not the
\* entry node's
C5_Witness ==
    /\ ctor = "begin" /\ advances = 0 /\ pc = "idle"
    /\ entry \notin Range(it.CurrentSCC)

C7_AdvanceTerminates ==
    /\ (pc = "run") ~> (pc = "idle")
    /\ [](pc = "aborted" => ~ret.ok)
    /\ []((ctor = "begin" /\ pc = "idle") =>
            /\ IsAtEnd(it) <=> advances >= Cardinality(ReachableSCCs)
            /\ ~IsAtEnd(it) => Len(emitted) = advances + 1
            /\ IsAtEnd(it) => Len(emitted) = Cardinality(ReachableSCCs))

\* C7 witness: an enumeration of three SCCs is at the end after a fourth
\* operator++
C7_Witness ==
    /\ Exhausted
    /\ Cardinality(ReachableSCCs) = 3
    /\ advances = 4

\* C9: operator* and hasLoop() called with an empty current SCC fail their
\* assertion and abort without a value; called with a current SCC they
\* return and do not abort.
C9_ObserversAssert ==
    ret.op \in {"deref", "hasLoop"} =>
        IF it.CurrentSCC = <<>>
        THEN ~ret.ok /\ pc = "aborted"
        ELSE ret.ok /\ pc = "idle"

\* C9 witness: hasLoop() aborted on an iterator made by end()
C9_Witness ==
    /\ ctor = "end"
    /\ ret.op = "hasLoop" /\ ~ret.ok
    /\ pc = "aborted"

\* C10: a call ReplaceNode(Old, New) with Old tracked leaves New tracked
\* with the record Old held before the call, Old untracked unless it is New,
\* and every other identity's record as it was.
C10_ReplaceNodeRekeys ==
    [][(ret'.op = "ReplaceNode" /\ ret'.ok) =>
         LET Old == ret'.val[1]
             New == ret'.val[2]
             before == it.nodeVisitNumbers
             after == it'.nodeVisitNumbers
         IN  /\ New \in DOMAIN after
             /\ after[New] = before[Old]
             /\ Old # New => Old \notin DOMAIN after
             /\ \A k \in Ids \ {Old, New} :
                    /\ k \in DOMAIN after <=> k \in DOMAIN before
                    /\ k \in DOMAIN before => after[k] = before[k]]_vars

\* C11: a call ReplaceNode(Old, New) returns only when Old is a key of the
\* visit map; with Old not a key it fails its assertion and aborts, and the
\* visit map, the stacks and the current SCC are as before the call.
C11_ReplaceNodeUntracked ==
    [][ret'.op = "ReplaceNode" =>
         /\ ret'.ok <=> ret'.val[1] \in DOMAIN it.nodeVisitNumbers
         /\ ~ret'.ok => (pc' = "aborted" /\ it' = it)
         /\ ret'.ok => pc' = "idle"]_vars

\* C11 witness: ReplaceNode aborted on an identity that was re-keyed away
\* by an earlier call, with an SCC current
C11_Witness ==
    /\ ret.op = "ReplaceNode" /\ ~ret.ok
    /\ pc = "aborted"
    /\ replaces = 2
    /\ ret.val[1] \in Range(it.CurrentSCC)

\* ---------------------------------------------------------------------------
\* The history of DFSVisitOne
\* ---------------------------------------------------------------------------
Discovered == {visited[i][1] : i \in DOMAIN visited}
\* the number DFSVisitOne gave to n (at its first call for n)
DiscoveryNumber(n) ==
    LET first == CHOOSE i \in DOMAIN visited :
                     /\ visited[i][1] = n
                     /\ \A j \in 1..(i - 1) : visited[j][1] # n
    IN  visited[first][2]
\* tracked and not marked ~0U
Active(s) == {n \in DOMAIN s.nodeVisitNumbers :
                  s.nodeVisitNumbers[n] # Finalized}
FrameNodes(s) == {s.VisitStack[i][1] : i \in DOMAIN s.VisitStack}
\* between two operations, with frames left on VisitStack
BetweenAdvances == pc = "idle" /\ it.VisitStack # <<>>
\* the discovery number of the earliest unfinalized node on VisitStack
EarliestFrameNumber ==
    LET ns == {DiscoveryNumber(n) : n \in FrameNodes(it) \cap Active(it)}
    IN  CHOOSE x \in ns : \A y \in ns : x <= y
\* SCCNodeStack holds no node twice, in increasing discovery order from the
\* bottom to the top
PendingOrdered ==
    \A i, j \in DOMAIN it.SCCNodeStack :
        i < j => DiscoveryNumber(it.SCCNodeStack[i])
                     < DiscoveryNumber(it.SCCNodeStack[j])

\* C12, as stated: between advances, with frames left, SCCNodeStack holds
\* exactly the nodes whose discovery number is at least that of the earliest
\* unfinalized node on VisitStack, in decreasing discovery order from the
\* top.  (Fails: the nodes of the SCCs emitted since are not on it.)
C12_PendingIsAllSinceEarliestFrame ==
    BetweenAdvances =>
        /\ Range(it.SCCNodeStack) =
               {n \in Discovered : DiscoveryNumber(n) >= EarliestFrameNumber}
        /\ PendingOrdered

\* C12, amended: between advances, with frames left, SCCNodeStack holds
\* exactly the discovered nodes that are not finalized (the frame nodes
\* among them), each with the discovery number it was given as its record
\* and none below that of the earliest frame node, in decreasing discovery
\* order from the top.
C12_PendingIsActiveSinceEarliestFrame ==
    BetweenAdvances =>
        /\ Range(it.SCCNodeStack) = Active(it)
        /\ Active(it) \subseteq Discovered
        /\ FrameNodes(it) \subseteq Active(it)
        /\ \A n \in Active(it) : it.nodeVisitNumbers[n] = DiscoveryNumber(n)
        /\ PendingOrdered
        /\ Range(it.SCCNodeStack) =
               {n \in Discovered :
                    /\ DiscoveryNumber(n) >= EarliestFrameNumber
                    /\ it.nodeVisitNumbers[n] # Finalized}

\* C12 witness: two nodes pending between advances while a node discovered
\* after them is finalized
C12_Witness ==
    /\ BetweenAdvances
    /\ Len(it.SCCNodeStack) >= 2
    /\ \E n \in Discovered :
           /\ it.nodeVisitNumbers[n] = Finalized
           /\ DiscoveryNumber(n) > DiscoveryNumber(Back(it.SCCNodeStack))

\* the nodes on SCCNodeStack or VisitStack
OnAStack(s) == Range(s.SCCNodeStack) \cup FrameNodes(s)

\* the k-th call of DFSVisitOne gave the number k, to a node not visited
\* before
NumberedInPreorder ==
    /\ \A i \in DOMAIN visited : visited[i][2] = i
    /\ \A i, j \in DOMAIN visited : visited[i][1] = visited[j][1] => i = j
    /\ ctor = "begin" => it.visitNum = Len(visited)
    /\ DOMAIN it.nodeVisitNumbers = Discovered

\* a step keeps the record of a tracked node, or marks it ~0U as it moves
\* the node to CurrentSCC; a marked node stays marked and off the stacks
RecordLifecycle ==
    \A n \in DOMAIN it.nodeVisitNumbers :
        /\ n \in DOMAIN it'.nodeVisitNumbers
        /\ IF it.nodeVisitNumbers[n] = Finalized
           THEN /\ it'.nodeVisitNumbers[n] = Finalized
                /\ n \notin OnAStack(it')
           ELSE /\ it.nodeVisitNumbers[n] = DiscoveryNumber(n)
                /\ \/ it'.nodeVisitNumbers[n] = it.nodeVisitNumbers[n]
                   \/ /\ it'.nodeVisitNumbers[n] = Finalized
                      /\ n \in Range(it'.CurrentSCC)
                      /\ n \notin Range(it.CurrentSCC)

\* C13: without ReplaceNode, discovery numbers are given as 1, 2, 3, ... in
\* the order of discovery, no two nodes share one and no node is discovered
\* twice; a node's record keeps its number until the node is emitted, is
\* then set to ~0U, never changes again, and the node is on no stack again.
C13_DiscoveryNumbers ==
    /\ []NumberedInPreorder
    /\ [][RecordLifecycle]_vars

\* C13 witness: every node was discovered, one SCC was emitted by an earlier
\* call and a child found finalized was read afterwards
C13_Witness ==
    /\ pc = "idle"
    /\ Len(visited) = NumNodes
    /\ Len(emitted) >= 2
    /\ \E i \in DOMAIN examined :
           /\ Len(children[examined[i][1]]) >= examined[i][2]
           /\ ChildAt(examined[i][1], examined[i][2])
                  \in Range(emitted[1])
           /\ examined[i][1] \notin Range(emitted[1])

\* GetNextSCC failed its assertion (the only abort that leaves no outcome
\* of an observer or of ReplaceNode)
GetNextSCCAborted == pc = "aborted" /\ ret.op = NoRet.op

\* C14: VisitStack and MinVisitNumStack have the same length in every state,
\* before and after every visit step, frame pop, operator++ and ReplaceNode,
\* so the assertion at the start of GetNextSCC never fails.
C14_StacksInLockstep ==
    /\ Len(it.VisitStack) = Len(it.MinVisitNumStack)
    /\ ~GetNextSCCAborted

\* C14 witness: GetNextSCC runs with two frames after a ReplaceNode and an
\* earlier SCC
C14_Witness ==
    /\ pc = "run"
    /\ replaces >= 1
    /\ emitted # <<>>
    /\ Len(it.VisitStack) >= 2

Reverse(q) == [i \in 1..Len(q) |-> q[Len(q) + 1 - i]]

\* the step pops a frame (only lines 110-113 of GetNextSCC do)
PopsFrame == Len(it'.VisitStack) < Len(it.VisitStack)
\* the frame on top is the root of an SCC: its min is its node's number
TopIsRoot ==
    /\ Back(it.VisitStack)[1] \in DOMAIN it.nodeVisitNumbers
    /\ Back(it.MinVisitNumStack)
           = it.nodeVisitNumbers[Back(it.VisitStack)[1]]

\* the step moves SCCNodeStack from its top down to root into CurrentSCC
EmitsDownTo(root) ==
    \E k \in DOMAIN it.SCCNodeStack :
        /\ it.SCCNodeStack[k] = root
        /\ it'.SCCNodeStack = SubSeq(it.SCCNodeStack, 1, k - 1)
        /\ it'.CurrentSCC =
               Reverse(SubSeq(it.SCCNodeStack, k, Len(it.SCCNodeStack)))
        /\ \A i, j \in DOMAIN it'.CurrentSCC :
               i < j => it.nodeVisitNumbers[it'.CurrentSCC[i]]
                            > it.nodeVisitNumbers[it'.CurrentSCC[j]]
        /\ it'.CurrentSCC[Len(it'.CurrentSCC)] = root
        /\ \A n \in Range(it'.CurrentSCC) :
               it'.nodeVisitNumbers[n] = Finalized
        /\ \A n \in DOMAIN it.nodeVisitNumbers \ Range(it'.CurrentSCC) :
               it'.nodeVisitNumbers[n] = it.nodeVisitNumbers[n]

\* C15: when GetNextSCC pops a frame whose min equals its node's discovery
\* number, the new CurrentSCC is SCCNodeStack from its top down to and
\* including that node, in that order (decreasing discovery numbers, the
\* root last), those nodes are marked ~0U, the stack below the root is
\* unchanged, and GetNextSCC returns at once.
C15_RootPopEmitsSCC ==
    [][(PopsFrame /\ TopIsRoot) =>
          /\ EmitsDownTo(Back(it.VisitStack)[1])
          /\ pc' = "idle"
          /\ emitted' = Append(emitted, it'.CurrentSCC)]_vars

\* C15 witness: an SCC of two nodes or more was just emitted off the top of
\* SCCNodeStack, other nodes staying below its root
C15_Witness ==
    /\ pc = "idle"
    /\ Len(it.CurrentSCC) >= 2
    /\ it.SCCNodeStack # <<>>
    /\ emitted # <<>> /\ emitted[Len(emitted)] = it.CurrentSCC

\* the edges leaving the nodes reachable from the entry, as <<node, place
\* in the node's child list>>
ReachableEdges ==
    {<<n, i>> : n \in Reachable(entry), i \in 1..MaxEdges}
        \cap {e \in Nodes \X (1..MaxEdges) : e[2] <= Len(children[e[1]])}

\* no node was given a frame twice, no edge was read twice, both within the
\* reachable part of the graph; the places read of a node with a frame are
\* those before its cursor; at exhaustion nothing reachable is left out
LinearWork ==
    /\ \A i, j \in DOMAIN visited : visited[i][1] = visited[j][1] => i = j
    /\ \A i, j \in DOMAIN examined : examined[i] = examined[j] => i = j
    /\ Discovered \subseteq Reachable(entry)
    /\ Range(examined) \subseteq ReachableEdges
    /\ \A f \in Range(it.VisitStack) :
           {e[2] : e \in {x \in Range(examined) : x[1] = f[1]}}
               = 1..(f[2] - 1)
    /\ Exhausted => /\ Discovered = Reachable(entry)
                    /\ Range(examined) = ReachableEdges

\* a frame that stays on VisitStack keeps its node, and its cursor does not
\* move back
CursorsForward ==
    \A i \in DOMAIN it.VisitStack \cap DOMAIN it'.VisitStack :
        /\ it'.VisitStack[i][1] = it.VisitStack[i][1]
        /\ it'.VisitStack[i][2] >= it.VisitStack[i][2]

\* C16: over all the operator++ calls of one enumeration each reachable node
\* is given a frame exactly once and each edge leaving a reachable node is
\* read exactly once: a frame's child cursor only moves forward and goes on
\* from where it was when GetNextSCC is entered again.
C16_LinearWork ==
    /\ []LinearWork
    /\ [][CursorsForward]_vars

\* C16 witness: an exhausted enumeration that took several operator++ calls,
\* one of which went on reading the children of a frame left by an earlier
\* call
C16_Witness ==
    /\ Exhausted
    /\ Len(visited) = NumNodes
    /\ Len(examined) = MaxEdges
    /\ Len(emitted) >= 2
    /\ \E i \in DOMAIN examined :
           /\ examined[i][2] >= 2
           /\ ChildAt(examined[i][1], 1) \in Range(emitted[1])
           /\ examined[i][1] \notin Range(emitted[1])

\* C17, as stated: with ReplaceNode(Old, New) called only between operator++
\* calls, Old tracked and New a fresh identity, New is finalized when the
\* SCC of the vertex is emitted, so once the enumeration is exhausted every
\* key of the visit map holds ~0U.  (Fails: GetNextSCC goes on with Old,
\* which the stacks still hold.)
C17_ReplacedIdentityFinalized ==
    (Exhausted /\ freshOnly) =>
        \A n \in DOMAIN it.nodeVisitNumbers :
            it.nodeVisitNumbers[n] = Finalized

\* the bottom frame is the entry node's, and its min is the entry's number
EntryFrameIsRoot ==
    it.VisitStack # <<>> =>
        /\ it.VisitStack[1][1] = entry
        /\ MapCount(it.nodeVisitNumbers, entry)
        /\ it.MinVisitNumStack[1] = it.nodeVisitNumbers[entry]
        /\ entry \notin EmittedNodes

\* the step that empties VisitStack returns from GetNextSCC with an SCC
\* that holds the entry node
LastPopEmits ==
    (it.VisitStack # <<>> /\ it'.VisitStack = <<>>) =>
        /\ pc' = "idle"
        /\ entry \in Range(it'.CurrentSCC)
        /\ emitted' = Append(emitted, it'.CurrentSCC)

\* GetNextSCC runs with VisitStack empty only when entered with it empty,
\* and the end is reached only from there
ExhaustedFromEmptyStack ==
    /\ (pc' = "run" /\ it'.VisitStack = <<>>) =>
           (pc = "idle" /\ it.VisitStack = <<>> /\ advances' = advances + 1)
    /\ (Exhausted' /\ ~Exhausted) =>
           (pc = "run" /\ it.VisitStack = <<>> /\ it' = it)

\* C18: the entry node's frame is the root of an SCC, so VisitStack does not
\* become empty inside a GetNextSCC call without the call emitting an SCC;
\* the last SCC emitted holds the entry node, and the end is only reached
\* by a GetNextSCC call entered with VisitStack already empty.
C18_EntryFrameIsRoot ==
    /\ [](/\ EntryFrameIsRoot
          /\ Exhausted => /\ emitted # <<>>
                          /\ entry \in Range(emitted[Len(emitted)]))
    /\ [][LastPopEmits /\ ExhaustedFromEmptyStack]_vars

\* C18 witness: the end reached after several SCCs, the last one holding
\* the entry node and another node
C18_Witness ==
    /\ Exhausted
    /\ Len(emitted) >= 2
    /\ entry \in Range(emitted[Len(emitted)])
    /\ Len(emitted[Len(emitted)]) >= 2
    /\ advances = Len(emitted)

MinsWithinBounds ==
    /\ ctor = "begin" => Finalized > it.visitNum
    /\ Len(it.MinVisitNumStack) = Len(it.VisitStack)
    /\ \A i \in DOMAIN it.VisitStack :
           LET N == it.VisitStack[i][1]
               low == it.MinVisitNumStack[i]
           IN  /\ low >= 1
               /\ MapCount(it.nodeVisitNumbers, N)
               /\ low <= it.nodeVisitNumbers[N]
               /\ it.nodeVisitNumbers[N] = DiscoveryNumber(N)
               /\ \E m \in Range(it.SCCNodeStack) :
                      /\ MapCount(it.nodeVisitNumbers, m)
                      /\ it.nodeVisitNumbers[m] = low

\* the step reads a child that is marked ~0U
ReadsFinalizedChild ==
    /\ examined' # examined
    /\ LET top == Back(it.VisitStack)
           childN == ChildAt(top[1], top[2])
       IN  /\ MapCount(it.nodeVisitNumbers, childN)
           /\ it.nodeVisitNumbers[childN] = Finalized

\* C20: without ReplaceNode, every frame's min is at least 1, at most the
\* discovery number of the frame's node, and the discovery number of a node
\* on SCCNodeStack; reading an edge to a finalized node changes no min, ~0U
\* being above every discovery number.
C20_LowLinkBounds ==
    /\ []MinsWithinBounds
    /\ [][ReadsFinalizedChild =>
              /\ it'.MinVisitNumStack = it.MinVisitNumStack
              /\ it'.nodeVisitNumbers = it.nodeVisitNumbers
              /\ it'.SCCNodeStack = it.SCCNodeStack]_vars

\* C20 witness: after an SCC was emitted, the frame on top has a min below
\* its own node's number
C20_Witness ==
    /\ pc = "run"
    /\ emitted # <<>>
    /\ Len(it.VisitStack) >= 2
    /\ Back(it.MinVisitNumStack)
           < it.nodeVisitNumbers[Back(it.VisitStack)[1]]
    /\ \E n \in DOMAIN it.nodeVisitNumbers :
           it.nodeVisitNumbers[n] = Finalized
=============================================================================
